---- MODULE Spec2Model ----
(***************************************************************************)
(* Model of the chat session controller of the twiGPT front end:          *)
(* ChatProvider (context/ChatContext.jsx, parallel-mode version) and the  *)
(* streaming decoder ApiService.sendMessage (services/api.js).            *)
(*                                                                         *)
(* React state is modelled by one variable per useState cell.  A handler  *)
(* runs to its next await as one step; the functional updaters it queues  *)
(* are applied in order, so a step's effect is their composition.         *)
(***************************************************************************)
EXTENDS Integers, Sequences, FiniteSets, TLC

\* ------------------------------------------------------------------ bounds
MaxTurns == 2      \* accepted sendMessage calls in one behaviour
MaxChunks == 2     \* content records delivered to one stream
MaxCrud == 2       \* conversation create/select/delete requests issued
MaxSelects == 1    \* selectResponse calls issued
MaxSteps == 9      \* handler executions in one behaviour
MaxRecords == 2    \* records in a response body whose bytes are modelled
MaxCuts == 2       \* places where the transport splits such a body
MaxBodies == 1     \* such bodies in one behaviour

\* ------------------------------------------------------------ value spaces
NULL == [id |-> 0, model_name |-> ""]
DefaultModel == "qwen3:latest"
DefaultSecondModel == "llama3.2:latest"
Models == {DefaultModel, DefaultSecondModel}
UserTexts == {"hello"}
ChunkTexts == {"Hi", " there"}
BackendErrors == {"timeout"}
FetchErrorMessage == "Failed to fetch"
HttpErrorMessage == "HTTP error! status: 500"
ReadErrorMessage == "network error"

\* identifiers: a tag and a number.  NoId is the absent (undefined) message_id.
NoId == <<"none", 0>>
TempId(kind, t) == <<kind, t>>
ServerId(n) == <<"srv", n>>

\* model_index of a payload; Undefined when the field (or argument) is absent
Undefined == -1

\* ------------------------------------------------------------------ state
VARIABLES
    conversations,        \* useState([])      ids of the listed conversations
    currentConversation,  \* useState(null)
    messages,             \* useState([])
    isLoading,            \* useState(false)
    isStreaming,          \* useState(false)
    parallelMode,         \* useState(false)
    secondModel,          \* useState('llama3.2:latest')
    now,                  \* Date.now() of the latest handler that read the clock
    streams,              \* one record per sendMessage call that passed the guard
    pending,              \* CRUD requests awaiting their response
    server,               \* ids of the conversations the backend stores
    ncrud,                \* CRUD requests issued so far
    nselect,              \* selectResponse calls issued so far
    lastSelect,           \* history: the latest selectConversation request
    steps                 \* handler executions so far

vars == <<conversations, currentConversation, messages, isLoading, isStreaming,
          parallelMode, secondModel, now, streams, pending, server, ncrud, nselect,
          lastSelect, steps>>

Turns == 1..MaxTurns

\* ---------------------------------------------------------------- messages
UserMessage(id, text) ==
    [id |-> id, role |-> "user", content |-> text, isStreaming |-> FALSE,
     error |-> FALSE, parallel |-> FALSE, model |-> ""]

AssistantMessage_NotStreaming(id) ==
    [id |-> id, role |-> "assistant", content |-> "", isStreaming |-> FALSE,
     error |-> FALSE, parallel |-> FALSE, model |-> ""]

AssistantMessage(id) ==
    [id |-> id, role |-> "assistant", content |-> "", isStreaming |-> TRUE,
     error |-> FALSE, parallel |-> FALSE, model |-> ""]

ParallelAssistantMessage(id, model) ==
    [id |-> id, role |-> "assistant", content |-> "", isStreaming |-> TRUE,
     error |-> FALSE, parallel |-> TRUE, model |-> model]

\* prev.map(msg => cond(msg) ? f(msg) : msg)
MapMessages(prev, ids, f(_)) ==
    [i \in DOMAIN prev |-> IF prev[i].id \in ids THEN f(prev[i]) ELSE prev[i]]

\* ------------------------------------------------------- wire and streams
\* One line of chunk.split('\n'): prefix = line.startsWith('data: '),
\* parses = JSON.parse succeeds; the other fields are the parsed payload.
DataLine(content, done, error, message_id, model_index) ==
    [prefix |-> TRUE, parses |-> TRUE, content |-> content, done |-> done,
     error |-> error, message_id |-> message_id, model_index |-> model_index]
MalformedLine ==
    [prefix |-> TRUE, parses |-> FALSE, content |-> "", done |-> FALSE,
     error |-> "", message_id |-> NoId, model_index |-> Undefined]
BlankLine ==
    [prefix |-> FALSE, parses |-> FALSE, content |-> "", done |-> FALSE,
     error |-> "", message_id |-> NoId, model_index |-> Undefined]
NoLine == BlankLine

\* In parallel mode the backend tags each record with the index of the model
\* that produced it; the first model says "Hi", the second " there".
ModelIndexOf(c) == IF c = "Hi" THEN 0 ELSE 1
ContentLines(mode) ==
    {DataLine(c, FALSE, "", NoId, IF mode = "single" THEN Undefined ELSE ModelIndexOf(c)) :
        c \in ChunkTexts}
\* A done or error record of a parallel turn either stands for the whole turn
\* (no model_index) or is tagged with the index of the model it is about.
DoneLines(mode, t) ==
    {DataLine("", TRUE, "", mid, Undefined) : mid \in {NoId, ServerId(t)}} \cup
    (IF mode = "single" THEN {}
     ELSE {DataLine("", TRUE, "", NoId, k) : k \in {0, 1}})
ErrorLines(mode) ==
    {DataLine("", TRUE, e, NoId, Undefined) : e \in BackendErrors} \cup
    (IF mode = "single" THEN {}
     ELSE {DataLine("", TRUE, e, NoId, k) : e \in BackendErrors, k \in {0, 1}})
Lines(mode, t) ==
    ContentLines(mode) \cup DoneLines(mode, t) \cup ErrorLines(mode) \cup {MalformedLine}

\* The bookkeeping of one apiService.sendMessage call: the identifiers its
\* callbacks captured, where its loops stand (inLoop: the for loop has lines
\* of the current fragment left), what it has delivered, and whether its
\* inner catch block has logged a parse error.  Where the bytes of the body
\* are modelled, sent holds the records the backend wrote and body the
\* fragments reader.read() has still to return.
IdleStream ==
    [phase |-> "idle", mode |-> "single", conv |-> 0, id1 |-> NoId, id2 |-> NoId,
     inLoop |-> FALSE, chunks |-> <<>>, completes |-> 0, errors |-> 0,
     terminal |-> NoLine, logged |-> FALSE, sent |-> <<>>, body |-> <<>>]

NewStream(mode, conv, id1, id2) ==
    [IdleStream EXCEPT !.phase = "fetching", !.mode = mode, !.conv = conv,
                       !.id1 = id1, !.id2 = id2]

NTurns == Cardinality({t \in Turns : streams[t].phase # "idle"})

\* ---------------------------------------------------- ChatProvider callbacks
AppendChunk_Prepends(msg, chunk) == [msg EXCEPT !.content = chunk \o msg.content]

AppendChunk_Replaces(msg, chunk) == [msg EXCEPT !.content = chunk]

\* { ...msg, content: msg.content + chunk }
AppendChunk(msg, chunk) == [msg EXCEPT !.content = msg.content \o chunk]

OnChunk_Upserts(s, prev, chunk, modelIndex) ==
    IF \E i \in DOMAIN prev : prev[i].id = s.id1
    THEN MapMessages(prev, {s.id1}, LAMBDA msg : AppendChunk(msg, chunk))
    ELSE Append(prev, AppendChunk(AssistantMessage(s.id1), chunk))

\* onChunk of the single branch and of the parallel branch
OnChunk(s, prev, chunk, modelIndex) ==
    IF s.mode = "single"
    THEN LET f(msg) == AppendChunk(msg, chunk) IN MapMessages(prev, {s.id1}, f)
    ELSE LET targetId == IF modelIndex = 0 THEN s.id1 ELSE s.id2
             f(msg) == AppendChunk(msg, chunk)
         IN  MapMessages(prev, {targetId}, f)

Finalize_KeepsTemporaryId(msg, data) == [msg EXCEPT !.isStreaming = FALSE]

\* { ...msg, isStreaming: false, id: data.message_id || msg.id }
Finalize(msg, data) ==
    [msg EXCEPT !.isStreaming = FALSE,
                !.id = IF data.message_id # NoId THEN data.message_id ELSE msg.id]

\* onComplete: the setMessages updater (setIsStreaming(false) is in ProcessLines)
OnComplete(s, prev, data) ==
    IF s.mode = "single"
    THEN LET f(msg) == Finalize(msg, data) IN MapMessages(prev, {s.id1}, f)
    ELSE LET f(msg) == [msg EXCEPT !.isStreaming = FALSE]
         IN  MapMessages(prev, {s.id1, s.id2}, f)

Fail_NoErrorFlag(msg, error) ==
    [msg EXCEPT !.content = "Error: " \o error, !.isStreaming = FALSE]

\* { ...msg, content: `Error: ${error}`, isStreaming: false, error: true }
Fail(msg, error) ==
    [msg EXCEPT !.content = "Error: " \o error, !.isStreaming = FALSE, !.error = TRUE]

\* onError: the setMessages updater, the same in both branches up to the ids
OnError(s, prev, error) ==
    LET f(msg) == Fail(msg, error)
    IN  MapMessages(prev, IF s.mode = "single" THEN {s.id1} ELSE {s.id1, s.id2}, f)

\* ------------------------------------------------- ApiService.sendMessage
AfterTerminal_Break(s, line) == [s EXCEPT !.inLoop = FALSE, !.terminal = line]
AfterTerminal_Continue(s, line) == [s EXCEPT !.terminal = line]

\* What happens to the loops after a terminal callback: `return`.
AfterTerminal(s, line) ==
    [s EXCEPT !.phase = "ended", !.inLoop = FALSE, !.terminal = line]

ProcessLine_MalformedAborts(line, more, msgs, flag, s) ==
    IF line.prefix /\ ~line.parses
    THEN [messages |-> OnError(s, msgs, "Unexpected token"), isStreaming |-> FALSE,
          stream |-> AfterTerminal([s EXCEPT !.logged = TRUE], line)]
    ELSE [messages |-> msgs, isStreaming |-> flag, stream |-> s]

ProcessLine_DoneFirst(line, more, msgs, flag, s) ==
    IF line.prefix /\ line.parses /\ line.done
    THEN [messages |-> OnComplete(s, msgs, line), isStreaming |-> FALSE,
          stream |-> AfterTerminal([s EXCEPT !.completes = @ + 1], line)]
    ELSE IF line.prefix /\ line.parses /\ line.error # ""
    THEN [messages |-> OnError(s, msgs, line.error), isStreaming |-> FALSE,
          stream |-> AfterTerminal([s EXCEPT !.errors = @ + 1], line)]
    ELSE IF line.prefix /\ line.parses /\ line.content # ""
    THEN [messages |-> OnChunk(s, msgs, line.content, Undefined), isStreaming |-> flag,
          stream |-> [s EXCEPT !.inLoop = more, !.chunks = Append(@, line)]]
    ELSE [messages |-> msgs, isStreaming |-> flag,
          stream |-> [s EXCEPT !.inLoop = more, !.logged = @ \/ (line.prefix /\ ~line.parses)]]

\* The body of `for (const line of lines)` for one line; more tells whether
\* the fragment has further lines.
ProcessLine(line, more, msgs, flag, s) ==
    LET skip == [messages |-> msgs, isStreaming |-> flag,
                 stream |-> [s EXCEPT !.inLoop = more]]
    IN  IF ~line.prefix THEN skip
        ELSE IF ~line.parses
        THEN [skip EXCEPT !.stream.logged = TRUE]     \* catch (e): console.error
        ELSE IF line.error # ""
        THEN [messages |-> OnError(s, msgs, line.error), isStreaming |-> FALSE,
              stream |-> AfterTerminal([s EXCEPT !.errors = @ + 1], line)]
        ELSE IF line.done
        THEN [messages |-> OnComplete(s, msgs, line), isStreaming |-> FALSE,
              stream |-> AfterTerminal([s EXCEPT !.completes = @ + 1], line)]
        ELSE IF line.content # ""
        THEN [messages |-> OnChunk(s, msgs, line.content, Undefined),
              isStreaming |-> flag,
              stream |-> [s EXCEPT !.inLoop = more, !.chunks = Append(@, line)]]
        ELSE skip

\* ----------------------------------------------------------- CRUD requests
\* A request of the axios collaborator that awaits its response.  cur is
\* the currentConversation id the calling closure captured.
Request(op, n, arg, cur, msg, pair) ==
    [op |-> op, n |-> n, arg |-> arg, cur |-> cur, msg |-> msg, pair |-> pair]
NoMessage == UserMessage(NoId, "")
SimpleRequest(op, n, arg, cur) == Request(op, n, arg, cur, NoMessage, <<NoId, NoId>>)

PreExisting == {1}
StoredHistory ==
    << UserMessage(<<"db", 1>>, "hello"),
       [AssistantMessage(<<"db", 2>>) EXCEPT !.content = "Hi", !.isStreaming = FALSE] >>
ServerHistories == {<<>>, StoredHistory}

\* The state after construction, against a backend that stores the
\* conversations `stored`
Start(stored) ==
    /\ conversations = {}
    /\ currentConversation = NULL
    /\ messages = <<>>
    /\ isLoading = FALSE
    /\ isStreaming = FALSE
    /\ parallelMode = FALSE
    /\ secondModel = DefaultSecondModel
    /\ now = 0
    /\ streams = [t \in Turns |-> IdleStream]
    /\ pending = {SimpleRequest("loadConversations", 0, 0, 0)}   \* useEffect on mount
    /\ server = stored
    /\ ncrud = 0
    /\ nselect = 0
    /\ lastSelect = [n |-> 0, arg |-> 0, ok |-> FALSE]
    /\ steps = 0

Init == Start(PreExisting)

\* The for loop of some stream is in the middle of a fragment: it runs to the
\* end of the fragment before any other handler can start.
Busy == \E t \in Turns : streams[t].inLoop

\* Every handler execution is one step of the bounded behaviour
Step == ~Busy /\ steps < MaxSteps /\ steps' = steps + 1

\* Date.now() read by a handler: handlers started by separate user actions
\* run in different milliseconds, every read inside one handler in the same.
Clock == now + 1

\* if (!currentConversation || isStreaming) return;  on the values of
\* currentConversation and isStreaming the closure has captured
GuardRejects(conversation, streaming) == conversation = NULL \/ streaming

SendGuardRejects_IgnoresStreaming == currentConversation = NULL

\* the guard in a closure of the current render
SendGuardRejects == GuardRejects(currentConversation, isStreaming)

\* sendMessage after its guard, up to `await apiService.sendMessage(...)`,
\* where fetch is sent: prev is the sequence the updaters are applied to,
\* conversation and parallel are the closure's currentConversation and
\* parallelMode, clock is what Date.now() returns
StartTurn(t, prev, conversation, parallel, messageContent, clock) ==
    LET userMessage == UserMessage(TempId("temp", clock), messageContent)
    IN  /\ IF parallel
           THEN LET assistantMessageId1 == TempId("temp-assistant-1", clock)
                    assistantMessageId2 == TempId("temp-assistant-2", clock)
                IN  /\ messages' = prev \o <<userMessage>> \o
                          << ParallelAssistantMessage(assistantMessageId1,
                                 conversation.model_name),
                             ParallelAssistantMessage(assistantMessageId2,
                                 secondModel) >>
                    /\ streams' = [streams EXCEPT ![t] =
                          NewStream("parallel", conversation.id,
                                    assistantMessageId1, assistantMessageId2)]
           ELSE LET assistantMessageId == TempId("temp-assistant", clock)
                IN  /\ messages' = prev \o <<userMessage>> \o
                          <<AssistantMessage(assistantMessageId)>>
                    /\ streams' = [streams EXCEPT ![t] =
                          NewStream("single", conversation.id,
                                    assistantMessageId, NoId)]
        /\ isStreaming' = TRUE
        /\ now' = clock

\* loadConversations: the response of apiService.getConversations()
LoadConversationsOk(r) ==
    /\ Step
    /\ r \in pending /\ r.op = "loadConversations"
    /\ conversations' = server
    /\ pending' = pending \ {r}
    /\ UNCHANGED <<currentConversation, messages, isLoading, isStreaming, parallelMode,
                   secondModel, now, streams, server, ncrud, nselect,
                   lastSelect>>

LoadConversationsFail_ClearsMessages(r) ==
    /\ Step
    /\ r \in pending /\ r.op = "loadConversations"
    /\ messages' = <<>>
    /\ pending' = pending \ {r}
    /\ UNCHANGED <<conversations, currentConversation, isLoading, isStreaming,
                   parallelMode, secondModel, now, streams, server, ncrud, nselect,
                   lastSelect>>

\* loadConversations: the catch block only logs
LoadConversationsFail(r) ==
    /\ Step
    /\ r \in pending /\ r.op = "loadConversations"
    /\ pending' = pending \ {r}
    /\ UNCHANGED <<conversations, currentConversation, messages, isLoading, isStreaming,
                   parallelMode, secondModel, now, streams, server, ncrud, nselect,
                   lastSelect>>

\* createNewConversation up to its await
CreateNewConversation ==
    /\ Step
    /\ ncrud < MaxCrud
    /\ ncrud' = ncrud + 1
    /\ pending' = pending \cup {SimpleRequest("createConversation", ncrud + 1, 0, 0)}
    /\ UNCHANGED <<conversations, currentConversation, messages, isLoading, isStreaming,
                   parallelMode, secondModel, now, streams, server, nselect,
                   lastSelect>>

\* MessageInput.handleSubmit with no current conversation, up to
\* `await createNewConversation()`; with a current conversation it is
\* SendMessage. messageToSend travels with the continuation.
HandleSubmit(message) ==
    /\ Step
    /\ message \in UserTexts
    /\ ~isStreaming
    /\ currentConversation = NULL
    /\ ncrud < MaxCrud
    /\ ncrud' = ncrud + 1
    /\ pending' = pending \cup
          {Request("createConversation", ncrud + 1, 0, 0,
                   UserMessage(NoId, message), <<NoId, NoId>>)}
    /\ UNCHANGED <<conversations, currentConversation, messages, isLoading, isStreaming,
                   parallelMode, secondModel, now, streams, server, nselect,
                   lastSelect>>

\* The currentConversation held by the closure that issued request r
Captured(r) ==
    IF r.cur = 0 THEN NULL ELSE [id |-> r.cur, model_name |-> DefaultModel]

\* createNewConversation after its await; when MessageInput.handleSubmit was
\* the caller, it goes on with sendMessage(messageToSend), the sendMessage of
\* the render in which it was started
CreateOk(r) ==
    /\ Step
    /\ r \in pending /\ r.op = "createConversation"
    /\ LET newConversation == [id |-> Cardinality(PreExisting) + r.n,
                               model_name |-> DefaultModel]
       IN  /\ server' = server \cup {newConversation.id}
           /\ conversations' = conversations \cup {newConversation.id}
           /\ currentConversation' = newConversation
    /\ pending' = pending \ {r}
    /\ IF r.msg = NoMessage \/ GuardRejects(Captured(r), FALSE) \/ NTurns >= MaxTurns
       THEN messages' = <<>> /\ UNCHANGED <<isStreaming, now, streams>>
       ELSE StartTurn(NTurns + 1, <<>>, Captured(r), parallelMode, r.msg.content, Clock)
    /\ UNCHANGED <<isLoading, parallelMode, secondModel, ncrud, nselect,
                   lastSelect>>

CreateFail(r) ==
    /\ Step
    /\ r \in pending /\ r.op = "createConversation"
    /\ pending' = pending \ {r}
    /\ UNCHANGED <<conversations, currentConversation, messages, isLoading, isStreaming,
                   parallelMode, secondModel, now, streams, server, ncrud, nselect,
                   lastSelect>>

\* selectConversation up to its await; the early return when already current
SelectConversation(c) ==
    /\ ~Busy
    /\ c \in conversations
    /\ IF currentConversation.id = c
       THEN UNCHANGED <<isLoading, pending, ncrud, lastSelect, steps>>
       ELSE /\ Step
            /\ ncrud < MaxCrud
            /\ isLoading' = TRUE
            /\ ncrud' = ncrud + 1
            /\ pending' = pending \cup {SimpleRequest("getConversation", ncrud + 1, c, 0)}
            /\ lastSelect' = [n |-> ncrud + 1, arg |-> c, ok |-> FALSE]
    /\ UNCHANGED <<conversations, currentConversation, messages, isStreaming,
                   parallelMode, secondModel, now, streams, server, nselect>>

GetOk(r, history) ==
    /\ Step
    /\ r \in pending /\ r.op = "getConversation"
    /\ r.arg \in server
    /\ currentConversation' = [id |-> r.arg, model_name |-> DefaultModel]
    /\ messages' = history
    /\ isLoading' = FALSE
    /\ pending' = pending \ {r}
    /\ lastSelect' = IF r.n = lastSelect.n THEN [lastSelect EXCEPT !.ok = TRUE]
                                           ELSE lastSelect
    /\ UNCHANGED <<conversations, isStreaming, parallelMode, secondModel, now, streams,
                   server, ncrud, nselect>>

GetFail(r) ==
    /\ Step
    /\ r \in pending /\ r.op = "getConversation"
    /\ isLoading' = FALSE
    /\ pending' = pending \ {r}
    /\ UNCHANGED <<conversations, currentConversation, messages, isStreaming,
                   parallelMode, secondModel, now, streams, server, ncrud, nselect,
                   lastSelect>>

\* deleteConversation up to its await
DeleteConversation(c) ==
    /\ Step
    /\ c \in conversations
    /\ ncrud < MaxCrud
    /\ ncrud' = ncrud + 1
    /\ pending' = pending \cup
          {SimpleRequest("deleteConversation", ncrud + 1, c, currentConversation.id)}
    /\ UNCHANGED <<conversations, currentConversation, messages, isLoading, isStreaming,
                   parallelMode, secondModel, now, streams, server, nselect,
                   lastSelect>>

DeleteOk(r) ==
    /\ Step
    /\ r \in pending /\ r.op = "deleteConversation"
    /\ server' = server \ {r.arg}
    /\ conversations' = conversations \ {r.arg}
    /\ IF r.cur = r.arg
       THEN currentConversation' = NULL /\ messages' = <<>>
       ELSE UNCHANGED <<currentConversation, messages>>
    /\ pending' = pending \ {r}
    /\ UNCHANGED <<isLoading, isStreaming, parallelMode, secondModel, now, streams,
                   ncrud, nselect,
                   lastSelect>>

DeleteFail(r) ==
    /\ Step
    /\ r \in pending /\ r.op = "deleteConversation"
    /\ pending' = pending \ {r}
    /\ UNCHANGED <<conversations, currentConversation, messages, isLoading, isStreaming,
                   parallelMode, secondModel, now, streams, server, ncrud, nselect,
                   lastSelect>>

\* Sidebar.handleParallelToggle(false)
ParallelToggleOff ==
    /\ Step
    /\ parallelMode
    /\ parallelMode' = FALSE
    /\ UNCHANGED <<conversations, currentConversation, messages, isLoading, isStreaming,
                   secondModel, now, streams, pending, server, ncrud, nselect,
                   lastSelect>>

\* Sidebar.handleSelectSecondModel(model)
SelectSecondModel(model) ==
    /\ Step
    /\ ~(parallelMode /\ secondModel = model)     \* a choice that changes something
    /\ model \in Models
    /\ secondModel' = model
    /\ parallelMode' = TRUE
    /\ UNCHANGED <<conversations, currentConversation, messages, isLoading, isStreaming,
                   now, streams, pending, server, ncrud, nselect,
                   lastSelect>>

\* ------------------------------------------------ ChatProvider.sendMessage
\* sendMessage called through the closure of the current render
SendMessage(messageContent) ==
    /\ ~Busy
    /\ messageContent \in UserTexts
    /\ IF SendGuardRejects
       THEN UNCHANGED <<messages, isStreaming, now, streams, steps>>
       ELSE /\ Step
            /\ NTurns < MaxTurns
            /\ StartTurn(NTurns + 1, messages, currentConversation, parallelMode,
                         messageContent, Clock)
    /\ UNCHANGED <<conversations, currentConversation, isLoading, parallelMode,
                   secondModel, pending, server, ncrud, nselect,
                   lastSelect>>

\* sendMessage called once more through the closure of the render in which
\* turn t was accepted: that closure holds isStreaming = false and the
\* conversation and mode of turn t
SendMessageSameRender(t, messageContent) ==
    /\ Step
    /\ messageContent \in UserTexts
    /\ streams[t].phase \in {"fetching", "reading"}
    /\ NTurns < MaxTurns
    /\ LET conversation == [id |-> streams[t].conv, model_name |-> DefaultModel]
       IN  /\ ~GuardRejects(conversation, FALSE)
           /\ StartTurn(NTurns + 1, messages, conversation, streams[t].mode = "parallel",
                        messageContent, Clock)
    /\ UNCHANGED <<conversations, currentConversation, isLoading, parallelMode,
                   secondModel, pending, server, ncrud, nselect,
                   lastSelect>>

TransportError_Rethrows(t, message) ==
    /\ streams' = [streams EXCEPT ![t] =
          [@ EXCEPT !.phase = "ended", !.terminal = [NoLine EXCEPT !.error = message]]]
    /\ UNCHANGED <<conversations, currentConversation, messages, isLoading, isStreaming,
                   parallelMode, secondModel, now, pending, server, ncrud, nselect,
                   lastSelect>>

\* The catch block of ApiService.sendMessage: onError(error.message)
TransportError(t, message) ==
    /\ messages' = OnError(streams[t], messages, message)
    /\ isStreaming' = FALSE
    /\ streams' = [streams EXCEPT ![t] =
          [@ EXCEPT !.phase = "ended", !.errors = @ + 1,
                    !.terminal = [NoLine EXCEPT !.error = message]]]
    /\ UNCHANGED <<conversations, currentConversation, isLoading, parallelMode,
                   secondModel, now, pending, server, ncrud, nselect,
                   lastSelect>>

\* fetch rejects
FetchFail(t) ==
    /\ Step
    /\ streams[t].phase = "fetching"
    /\ TransportError(t, FetchErrorMessage)

\* !response.ok
FetchNotOk(t) ==
    /\ Step
    /\ streams[t].phase = "fetching"
    /\ TransportError(t, HttpErrorMessage)

\* fetch resolves with response.ok: the reader is taken
Resolve(t) ==
    /\ streams[t].phase = "fetching"
    /\ streams' = [streams EXCEPT ![t].phase = "reading"]
    /\ UNCHANGED <<conversations, currentConversation, messages, isLoading, isStreaming,
                   parallelMode, secondModel, now, pending, server, ncrud, nselect,
                   lastSelect>>

FetchOk(t) == Step /\ Resolve(t)

\* reader.read() resolved with a fragment and the for loop handles its next
\* line; more tells whether the fragment goes on after this line.
\* onComplete also starts loadConversations().
Handle(t, line, more) ==
    /\ streams[t].phase = "reading"
    /\ Busy => streams[t].inLoop
    /\ line \in Lines(streams[t].mode, t)
    /\ LET out == ProcessLine(line, more, messages, isStreaming, streams[t])
       IN  /\ Len(out.stream.chunks) <= MaxChunks
           /\ messages' = out.messages
           /\ isStreaming' = out.isStreaming
           /\ streams' = [streams EXCEPT ![t] = out.stream]
           /\ pending' = IF out.stream.completes > streams[t].completes
                         THEN pending \cup {SimpleRequest("loadConversations", 0, 0, 0)}
                         ELSE pending
    /\ UNCHANGED <<conversations, currentConversation, isLoading, parallelMode,
                   secondModel, now, server, ncrud, nselect,
                   lastSelect>>

ReadLine(t, line, more) ==
    /\ steps < MaxSteps /\ steps' = steps + 1
    /\ Handle(t, line, more)

\* reader.read() resolves with done: true; the loop breaks, no callback runs
Close(t) ==
    /\ streams[t].phase = "reading"
    /\ streams' = [streams EXCEPT ![t].phase = "ended"]
    /\ UNCHANGED <<conversations, currentConversation, messages, isLoading, isStreaming,
                   parallelMode, secondModel, now, pending, server, ncrud, nselect,
                   lastSelect>>

ReadClose(t) == Step /\ Close(t)

\* reader.read() rejects
ReadError(t) ==
    /\ Step
    /\ streams[t].phase = "reading"
    /\ TransportError(t, ReadErrorMessage)

\* ---------------------------------------------- ChatProvider.selectResponse
IsParallelAssistant(msg) == msg.parallel /\ msg.role = "assistant"

FinalMessage_KeepsParallel(selectedMessage, t) ==
    [selectedMessage EXCEPT !.isStreaming = FALSE, !.id = <<"final", t>>]

\* { ...selectedMessage, parallel: false, isStreaming: false, id: `final-${Date.now()}` }
FinalMessage(selectedMessage, t) ==
    [selectedMessage EXCEPT !.parallel = FALSE, !.isStreaming = FALSE,
                            !.id = <<"final", t>>]

\* Whether the scan, standing at prev[i], replaces prev[i] and prev[i+1]
PairAt(prev, i) ==
    /\ IsParallelAssistant(prev[i])
    /\ i + 1 <= Len(prev)
    /\ IsParallelAssistant(prev[i + 1])

\* The setMessages updater of selectResponse: the loop from index i on
RECURSIVE MergeFrom(_, _, _, _)
MergeFrom(prev, i, selectedMessage, t) ==
    IF i > Len(prev) THEN <<>>
    ELSE IF PairAt(prev, i)
         THEN <<FinalMessage(selectedMessage, t)>> \o MergeFrom(prev, i + 2, selectedMessage, t)
         ELSE <<prev[i]>> \o MergeFrom(prev, i + 1, selectedMessage, t)

\* selectResponse(conversationId, query, selectedMessage) up to its await;
\* selectedMessage is one message of the pair shown at positions i, i + 1.
SelectResponse(i, side) ==
    /\ Step
    /\ nselect < MaxSelects
    /\ i \in DOMAIN messages /\ i + 1 \in DOMAIN messages
    /\ IsParallelAssistant(messages[i]) /\ IsParallelAssistant(messages[i + 1])
    /\ side \in {0, 1}
    /\ nselect' = nselect + 1
    /\ pending' = pending \cup
          {Request("selectResponse", nselect + 1, side, currentConversation.id,
                   messages[i + side], <<messages[i].id, messages[i + 1].id>>)}
    /\ UNCHANGED <<conversations, currentConversation, messages, isLoading, isStreaming,
                   parallelMode, secondModel, now, streams, server, ncrud, lastSelect>>

\* apiService.selectResponse resolved: the merge
SelectResponseOk(r) ==
    /\ Step
    /\ r \in pending /\ r.op = "selectResponse"
    /\ messages' = MergeFrom(messages, 1, r.msg, Clock)
    /\ now' = Clock
    /\ pending' = pending \ {r}
    /\ UNCHANGED <<conversations, currentConversation, isLoading, isStreaming,
                   parallelMode, secondModel, streams, server, ncrud, nselect,
                   lastSelect>>

\* apiService.selectResponse rejected: the catch block
SelectResponseFail(r) ==
    /\ Step
    /\ r \in pending /\ r.op = "selectResponse"
    /\ pending' = pending \ {r}
    /\ UNCHANGED <<conversations, currentConversation, messages, isLoading, isStreaming,
                   parallelMode, secondModel, now, streams, server, ncrud, nselect,
                   lastSelect>>

\* ------------------------------------------------------------ specification
Next ==
    \/ \E r \in pending : LoadConversationsOk(r)
    \/ \E r \in pending : LoadConversationsFail(r)
    \/ CreateNewConversation
    \/ \E text \in UserTexts : HandleSubmit(text)
    \/ \E r \in pending : CreateOk(r)
    \/ \E r \in pending : CreateFail(r)
    \/ \E c \in conversations : SelectConversation(c)
    \/ \E r \in pending, h \in ServerHistories : GetOk(r, h)
    \/ \E r \in pending : GetFail(r)
    \/ \E c \in conversations : DeleteConversation(c)
    \/ \E r \in pending : DeleteOk(r)
    \/ \E r \in pending : DeleteFail(r)
    \/ ParallelToggleOff
    \/ \E m \in Models : SelectSecondModel(m)
    \/ \E text \in UserTexts : SendMessage(text)
    \/ \E t \in Turns : FetchFail(t)
    \/ \E t \in Turns : FetchNotOk(t)
    \/ \E t \in Turns : FetchOk(t)
    \/ \E t \in Turns : \E line \in Lines(streams[t].mode, t), more \in BOOLEAN :
          ReadLine(t, line, more)
    \/ \E t \in Turns : ReadClose(t)
    \/ \E t \in Turns : ReadError(t)
    \/ \E i \in DOMAIN messages, side \in {0, 1} : SelectResponse(i, side)
    \/ \E r \in pending : SelectResponseOk(r)
    \/ \E r \in pending : SelectResponseFail(r)

Spec == Init /\ [][Next]_vars

\* ------------------------------------------------ the bytes of a body
\* The text of a body is a sequence of pieces: the marker, the braces and the
\* inside of a JSON payload, and the newline.  The transport may cut it
\* between any two pieces.
Marker == "data: "
Newline == "\n"

\* The well-formed records the backend writes in single mode
Records(t) == ContentLines("single") \cup DoneLines("single", t) \cup ErrorLines("single")

\* JSON.stringify of a record's payload, without the braces
Json(r) ==
    IF r.error # "" THEN "error:" \o r.error \o ",done:true"
    ELSE IF r.done
         THEN IF r.message_id = NoId THEN "done:true"
              ELSE "done:true,message_id:" \o ToString(r.message_id[2])
         ELSE "content:" \o r.content

\* `data: {...}\n\n`
Text(r) == <<Marker, "{", Json(r), "}", Newline, Newline>>

RECURSIVE Bytes(_)
Bytes(sent) == IF sent = <<>> THEN <<>> ELSE Text(Head(sent)) \o Bytes(Tail(sent))

\* The fragments reader.read() returns when the body is cut after the
\* pieces at the positions in cuts
RECURSIVE FragmentsFrom(_, _, _)
FragmentsFrom(bytes, cuts, start) ==
    IF cuts = {} THEN <<SubSeq(bytes, start, Len(bytes))>>
    ELSE LET c == CHOOSE x \in cuts : \A y \in cuts : x <= y
         IN  <<SubSeq(bytes, start, c)>> \o FragmentsFrom(bytes, cuts \ {c}, c + 1)
Fragments(bytes, cuts) == FragmentsFrom(bytes, cuts, 1)

\* The sets of at most k of the given positions
RECURSIVE CutSets(_, _)
CutSets(positions, k) ==
    IF k = 0 THEN {{}}
    ELSE LET fewer == CutSets(positions, k - 1)
         IN  fewer \cup {c \cup {x} : c \in fewer, x \in positions}

\* chunk.split('\n')
RECURSIVE SplitLines(_)
SplitLines(chunk) ==
    IF \A k \in DOMAIN chunk : chunk[k] # Newline THEN <<chunk>>
    ELSE LET k == CHOOSE x \in DOMAIN chunk :
                     chunk[x] = Newline /\ \A y \in 1..(x - 1) : chunk[y] # Newline
         IN  <<SubSeq(chunk, 1, k - 1)>> \o SplitLines(SubSeq(chunk, k + 1, Len(chunk)))

\* line.startsWith('data: ') and JSON.parse(line.slice(6)) for one line of a
\* split: the payload parses when it is a whole object
ParseLine(t, line) ==
    IF line = <<>> \/ Head(line) # Marker THEN BlankLine
    ELSE LET payload == Tail(line) IN
         IF /\ Len(payload) = 3 /\ payload[1] = "{" /\ payload[3] = "}"
            /\ \E r \in Records(t) : Json(r) = payload[2]
         THEN CHOOSE r \in Records(t) : Json(r) = payload[2]
         ELSE MalformedLine

\* The for loop over the lines of one fragment, until a callback returns
RECURSIVE RunLines(_, _, _, _, _)
RunLines(t, lines, msgs, flag, s) ==
    IF lines = <<>> \/ s.phase = "ended"
    THEN [messages |-> msgs, isStreaming |-> flag, stream |-> s]
    ELSE LET out == ProcessLine(ParseLine(t, Head(lines)), Tail(lines) # <<>>, msgs, flag, s)
         IN  RunLines(t, Tail(lines), out.messages, out.isStreaming, out.stream)

\* Whether another body may have its bytes modelled in this behaviour
BodiesLeft == Cardinality({u \in Turns : streams[u].sent # <<>>}) < MaxBodies

\* fetch resolves with response.ok and a body: the records sent and the way
\* the transport cuts their bytes
Respond(t, sent, cuts) ==
    /\ Step
    /\ streams[t].phase = "fetching" /\ streams[t].mode = "single"
    /\ BodiesLeft
    /\ Len(sent) \in 1..MaxRecords
    /\ \A k \in DOMAIN sent : sent[k] \in Records(t)
    /\ cuts \in CutSets(1..(Len(Bytes(sent)) - 1), MaxCuts)
    /\ streams' = [streams EXCEPT ![t] =
          [@ EXCEPT !.phase = "reading", !.sent = sent,
                    !.body = Fragments(Bytes(sent), cuts)]]
    /\ UNCHANGED <<conversations, currentConversation, messages, isLoading, isStreaming,
                   parallelMode, secondModel, now, pending, server, ncrud, nselect,
                   lastSelect>>

\* reader.read() returns the next fragment of the body and the for loop runs
ReadFragment(t) ==
    /\ Step
    /\ streams[t].phase = "reading" /\ streams[t].body # <<>>
    /\ LET out == RunLines(t, SplitLines(Head(streams[t].body)), messages, isStreaming,
                           [streams[t] EXCEPT !.body = Tail(@)])
       IN  /\ messages' = out.messages
           /\ isStreaming' = out.isStreaming
           /\ streams' = [streams EXCEPT ![t] = out.stream]
           /\ pending' = IF out.stream.completes > streams[t].completes
                         THEN pending \cup {SimpleRequest("loadConversations", 0, 0, 0)}
                         ELSE pending
    /\ UNCHANGED <<conversations, currentConversation, isLoading, parallelMode,
                   secondModel, now, server, ncrud, nselect,
                   lastSelect>>

\* reader.read() reports the end of a body all of whose fragments were read
ReadEnd(t) == Step /\ streams[t].sent # <<>> /\ streams[t].body = <<>> /\ Close(t)

\* One turn after another over bodies whose bytes are modelled
DecodeNext ==
    \/ CreateNewConversation
    \/ \E r \in pending : CreateOk(r)
    \/ \E text \in UserTexts : SendMessage(text)
    \/ \E t \in {u \in Turns : streams[u].phase = "fetching" /\ BodiesLeft} :
          \E n \in 1..MaxRecords : \E sent \in [1..n -> Records(t)] :
             \E cuts \in CutSets(1..(Len(Bytes(sent)) - 1), MaxCuts) : Respond(t, sent, cuts)
    \/ \E t \in Turns : ReadFragment(t)
    \/ \E t \in Turns : ReadEnd(t)

DecodeSpec == Init /\ [][DecodeNext]_vars

\* ------------------------------------------- calls through an old closure
\* The turns of one conversation when a caller may use the sendMessage of
\* the render in which a turn was accepted a second time
RaceNext ==
    \/ CreateNewConversation
    \/ \E r \in pending : CreateOk(r)
    \/ \E text \in UserTexts : SendMessage(text)
    \/ \E t \in Turns, text \in UserTexts : SendMessageSameRender(t, text)
    \/ \E t \in Turns : FetchFail(t)
    \/ \E t \in Turns : FetchNotOk(t)
    \/ \E t \in Turns : FetchOk(t)
    \/ \E t \in Turns : \E line \in Lines(streams[t].mode, t), more \in BOOLEAN :
          ReadLine(t, line, more)
    \/ \E t \in Turns : ReadClose(t)
    \/ \E t \in Turns : ReadError(t)

RaceSpec == Init /\ [][RaceNext]_vars

\* ------------------------------------------- moving between conversations
\* A backend that stores two conversations, and a user who moves between
\* them and talks in the one shown
TwoStored == {1, 2}

NavInit == Start(TwoStored)

NavNext ==
    \/ \E r \in pending : LoadConversationsOk(r)
    \/ \E c \in conversations : SelectConversation(c)
    \/ \E r \in pending, h \in ServerHistories : GetOk(r, h)
    \/ \E r \in pending : GetFail(r)
    \/ \E text \in UserTexts : SendMessage(text)
    \/ \E t \in Turns : FetchFail(t)
    \/ \E t \in Turns : FetchNotOk(t)
    \/ \E t \in Turns : FetchOk(t)
    \/ \E t \in Turns : \E line \in Lines(streams[t].mode, t), more \in BOOLEAN :
          ReadLine(t, line, more)
    \/ \E t \in Turns : ReadClose(t)
    \/ \E t \in Turns : ReadError(t)

NavSpec == NavInit /\ [][NavNext]_vars

\* ------------------------------------------------- the transport's progress
IsTerminal(line) == line.prefix /\ line.parses /\ (line.done \/ line.error # "")

\* The bounded part of a behaviour ends when the step budget is used up; the
\* request of a stream still in flight then goes on to its end: fetch
\* settles, the fragment being handled is finished, and the body ends with a
\* done or error record, a close or a read error.
Drain(t) ==
    /\ steps = MaxSteps /\ UNCHANGED steps
    /\ \/ ~Busy /\ streams[t].phase = "fetching" /\ TransportError(t, FetchErrorMessage)
       \/ ~Busy /\ streams[t].phase = "fetching" /\ TransportError(t, HttpErrorMessage)
       \/ ~Busy /\ Resolve(t)
       \/ \E line \in Lines(streams[t].mode, t) :
             (IsTerminal(line) \/ streams[t].inLoop) /\ Handle(t, line, FALSE)
       \/ ~Busy /\ Close(t)
       \/ ~Busy /\ streams[t].phase = "reading" /\ TransportError(t, ReadErrorMessage)

\* The request of stream t comes to an end: a done or error record is
\* delivered, the request fails, or the body is closed.
End(t) ==
    \/ FetchFail(t) \/ FetchNotOk(t) \/ ReadError(t) \/ ReadClose(t)
    \/ \E line \in Lines(streams[t].mode, t), more \in BOOLEAN :
          IsTerminal(line) /\ ReadLine(t, line, more)
    \/ /\ Drain(t)
       /\ streams'[t].phase = "ended"

\* The life of the turns of one conversation: it is created, the mode is
\* chosen, messages are sent and their requests run to their end.
LiveNext ==
    \/ \E r \in pending : LoadConversationsOk(r)
    \/ CreateNewConversation
    \/ \E r \in pending : CreateOk(r)
    \/ \E m \in Models : SelectSecondModel(m)
    \/ \E text \in UserTexts : SendMessage(text)
    \/ \E t \in Turns : FetchFail(t)
    \/ \E t \in Turns : FetchNotOk(t)
    \/ \E t \in Turns : FetchOk(t)
    \/ \E t \in Turns : \E line \in Lines(streams[t].mode, t), more \in BOOLEAN :
          ReadLine(t, line, more)
    \/ \E t \in Turns : ReadClose(t)
    \/ \E t \in Turns : ReadError(t)
    \/ \E t \in Turns : Drain(t)

\* every request that is in flight is eventually ended
LiveSpec ==
    /\ Init /\ [][LiveNext]_vars
    /\ \A t \in Turns : WF_vars(End(t))

\* ================================================================== claims
Positions(id) == {i \in DOMAIN messages : messages[i].id = id}

\* c1 + ... + cn of a sequence of content records
RECURSIVE Concat(_)
Concat(records) ==
    IF records = <<>> THEN ""
    ELSE records[1].content \o Concat(Tail(records))

\* The identifier a single-mode placeholder carries: the server id once a
\* complete record that has one was handled, the temporary id before.
PlaceholderId(s) ==
    IF s.completes > 0 /\ s.terminal.message_id # NoId
    THEN s.terminal.message_id ELSE s.id1

\* C1: while isStreaming is true a sendMessage call changes nothing: no step
\* of sendMessage can alter the messages, isStreaming, the current
\* conversation, the streams (no request is opened) or the pending requests.
C1_SubmitWhileStreamingRejected ==
    isStreaming =>
        ~ENABLED (\E text \in UserTexts :
                     /\ SendMessage(text)
                     /\ <<messages, isStreaming, currentConversation, streams, pending>>'
                            # <<messages, isStreaming, currentConversation, streams, pending>>)

\* a state where a call is turned away by the streaming gate alone
C1_Witness ==
    /\ isStreaming /\ currentConversation # NULL /\ ~Busy
    /\ NTurns < MaxTurns /\ steps < MaxSteps
    /\ ENABLED (\E text \in UserTexts : SendMessage(text))

\* C2: a single-mode placeholder that has not failed holds the concatenation,
\* in arrival order, of the content records delivered to its stream so far.
C2_ContentIsConcatenation ==
    \A t \in Turns :
        LET s == streams[t] IN
        (s.phase # "idle" /\ s.mode = "single" /\ s.errors = 0) =>
            \A i \in Positions(PlaceholderId(s)) :
                messages[i].content = Concat(s.chunks)

\* two different chunks have arrived and the placeholder shows them
C2_Witness ==
    \E t \in Turns :
        LET s == streams[t] IN
        /\ s.mode = "single" /\ s.errors = 0 /\ Len(s.chunks) = 2
        /\ s.chunks[1].content # s.chunks[2].content
        /\ \E i \in Positions(PlaceholderId(s)) :
              messages[i].content = s.chunks[1].content \o s.chunks[2].content

\* The messages of turn t's assistant placeholders that are in the sequence
TurnIds(s) == IF s.mode = "single" THEN {PlaceholderId(s)} ELSE {s.id1, s.id2}
ActiveTurnStreaming ==
    /\ NTurns > 0
    /\ \E i \in DOMAIN messages :
          messages[i].id \in TurnIds(streams[NTurns]) /\ messages[i].isStreaming

\* C3 (as claimed): between handlers, isStreaming is true exactly when a
\* message of the active turn is streaming.
C3_FlagIffActiveTurnStreaming ==
    ~Busy => (isStreaming <=> ActiveTurnStreaming)

\* C4: once a complete record of a turn has been handled, no further record
\* of that turn is handled (its stream record never changes again), and a
\* placeholder rebound to its server id never shows its temporary id again.
NeverReverted ==
    \A t \in Turns :
        LET s == streams[t] IN
        (s.mode = "single" /\ s.completes > 0 /\ s.terminal.message_id # NoId) =>
            Positions(s.id1) = {}
C4_RebindExactlyOnce ==
    [][/\ NeverReverted'
       /\ \A t \in Turns : streams[t].completes > 0 => streams'[t] = streams[t]]_vars

\* a placeholder has been rebound to its server id and the session went on
C4_Witness ==
    \E t \in Turns :
        LET s == streams[t] IN
        /\ s.mode = "single" /\ s.completes = 1 /\ s.terminal.message_id = ServerId(t)
        /\ Positions(ServerId(t)) # {}
        /\ NTurns > t

\* The step in which selectResponse's updater runs for request r
MergeStep(r) ==
    /\ r \in pending /\ r.op = "selectResponse"
    /\ r \notin pending'
    /\ now' # now

\* Where the selected pair of request r stands in the sequence
PairPositions(r) ==
    {i \in DOMAIN messages :
        /\ i + 1 \in DOMAIN messages
        /\ messages[i].id = r.pair[1] /\ messages[i + 1].id = r.pair[2]
        /\ IsParallelAssistant(messages[i]) /\ IsParallelAssistant(messages[i + 1])}

\* C5 (as claimed): the merge shortens the sequence by exactly one: the
\* selected pair is replaced by one message and nothing else changes.
C5_MergeIsTwoForOne ==
    [][\A r \in pending : MergeStep(r) =>
          \A i \in PairPositions(r) :
              /\ Len(messages') = Len(messages) - 1
              /\ SubSeq(messages', 1, i - 1) = SubSeq(messages, 1, i - 1)
              /\ SubSeq(messages', i + 1, Len(messages')) =
                     SubSeq(messages, i + 2, Len(messages))]_vars

\* C6 (as claimed): a selection whose pair is still streaming changes nothing.
C6_SelectWhileStreamingRejected ==
    [][\A r \in pending : MergeStep(r) =>
          \A i \in PairPositions(r) :
              (messages[i].isStreaming \/ messages[i + 1].isStreaming) =>
                  messages' = messages]_vars

\* C7: the step that handles a complete record in single mode leaves the
\* sequence as it was except for the placeholder, which stays at its place
\* with its role and content, gets isStreaming = false and takes the server
\* id when the record carries one; the global isStreaming becomes false.
CompleteStep(t) == streams[t].completes = 0 /\ streams'[t].completes = 1
C7_SingleComplete ==
    [][\A t \in Turns : (CompleteStep(t) /\ streams[t].mode = "single") =>
          LET data == streams'[t].terminal
              id == streams[t].id1
          IN  /\ isStreaming' = FALSE
              /\ Len(messages') = Len(messages)
              /\ \A i \in DOMAIN messages :
                    messages'[i] =
                        IF messages[i].id = id
                        THEN [messages[i] EXCEPT
                                !.isStreaming = FALSE,
                                !.id = IF data.message_id # NoId
                                       THEN data.message_id ELSE id]
                        ELSE messages[i]]_vars

\* submit "hello"; content("Hi"), content(" there"), complete("srv-1")
C7_Witness ==
    /\ Len(messages) = 2
    /\ messages[1].role = "user" /\ messages[1].content = "hello"
    /\ messages[2] = [AssistantMessage(ServerId(1)) EXCEPT
                         !.content = "Hi there", !.isStreaming = FALSE]
    /\ ~isStreaming

\* the content records of index k among those delivered to a stream
RECURSIVE OfIndex(_, _)
OfIndex(records, k) ==
    IF records = <<>> THEN <<>>
    ELSE (IF records[1].model_index = k THEN <<records[1]>> ELSE <<>>)
            \o OfIndex(Tail(records), k)

\* C8 (as claimed): in dual mode the first placeholder holds the records of
\* model_index 0 and the second those of model_index 1, each in order.
C8_DualRouting ==
    \A t \in Turns :
        LET s == streams[t] IN
        (s.mode = "parallel" /\ s.errors = 0) =>
            /\ \A i \in Positions(s.id1) :
                  messages[i].content = Concat(OfIndex(s.chunks, 0))
            /\ \A i \in Positions(s.id2) :
                  messages[i].content = Concat(OfIndex(s.chunks, 1))

ErrorStep(t) == streams[t].errors = 0 /\ streams'[t].errors = 1
C10_SingleError ==
    [][\A t \in Turns : (ErrorStep(t) /\ streams[t].mode = "single") =>
          /\ isStreaming' = FALSE
          /\ Len(messages') = Len(messages)
          /\ \A i \in DOMAIN messages :
                IF messages[i].id = streams[t].id1
                THEN /\ messages'[i].error /\ ~messages'[i].isStreaming
                     /\ messages'[i].id = messages[i].id
                     /\ messages'[i].role = messages[i].role
                ELSE messages'[i] = messages[i]]_vars

\* error("timeout") arrived after content had been streamed
C10_Witness ==
    \E t \in Turns :
        LET s == streams[t] IN
        /\ s.mode = "single" /\ s.errors = 1 /\ s.terminal.error = "timeout"
        /\ Len(s.chunks) > 0
        /\ \E i \in Positions(s.id1) : messages[i].error /\ ~messages[i].isStreaming
        /\ ~isStreaming

\* The step in which reader.read() reports the end of the body of a stream
\* that has delivered neither a complete nor an error record
CloseStep(t) ==
    /\ streams[t].phase = "reading" /\ streams'[t].phase = "ended"
    /\ streams'[t].errors = 0 /\ streams'[t].completes = 0

\* C11 (as claimed): when the body closes with no terminal record delivered,
\* every placeholder of the turn gets isStreaming = false and error = true
\* and the global isStreaming is cleared.
C11_CloseWithoutTerminalFails ==
    [][\A t \in Turns : CloseStep(t) =>
          /\ isStreaming' = FALSE
          /\ \A i \in DOMAIN messages' :
                messages'[i].id \in TurnIds(streams[t]) =>
                    messages'[i].error /\ ~messages'[i].isStreaming]_vars

\* The step in which apiService.selectResponse is rejected for request r
RemoteFailStep(r) ==
    /\ r \in pending /\ r.op = "selectResponse"
    /\ r \notin pending'
    /\ now' = now

\* C12 (as claimed): when the remote call of selectResponse fails while the
\* selected pair is displayed, the sequence afterwards is the merged one: the
\* two parallel placeholders are gone and the sequence is one shorter.
C12_MergeSurvivesRemoteFailure ==
    [][\A r \in pending : RemoteFailStep(r) =>
          (PairPositions(r) # {} =>
              /\ Len(messages') = Len(messages) - 1
              /\ \A j \in DOMAIN messages' :
                    messages'[j].id \notin {r.pair[1], r.pair[2]})]_vars

\* The placeholder of a parallel stream a record of model_index k is about,
\* and the other one
SideId(s, k) == IF k = 0 THEN s.id1 ELSE s.id2

\* C13 (as claimed): in dual mode the step that handles an error record of
\* one model marks that model's placeholder failed and leaves the other
\* placeholder as it was (still streaming), and the stream goes on reading.
C13_DualErrorIsPerModel ==
    [][\A t \in Turns :
          (/\ ErrorStep(t) /\ streams[t].mode = "parallel"
           /\ streams'[t].terminal.model_index \in {0, 1}) =>
              LET k == streams'[t].terminal.model_index
                  failed == SideId(streams[t], k)
                  other == SideId(streams[t], 1 - k)
              IN  /\ \A i \in DOMAIN messages :
                        /\ messages[i].id = other => messages'[i] = messages[i]
                        /\ messages[i].id = failed =>
                              messages'[i].error /\ ~messages'[i].isStreaming
                  /\ streams'[t].phase = "reading"]_vars

\* C14 (as claimed): in dual mode the step that handles a done record of one
\* model finalizes that model's placeholder only, leaving the other as it was
\* with the stream still reading; a done record for the whole turn finalizes
\* both placeholders in that step.
C14_DualCompletePerModel ==
    [][\A t \in Turns : (CompleteStep(t) /\ streams[t].mode = "parallel") =>
          LET k == streams'[t].terminal.model_index IN
          IF k \in {0, 1}
          THEN /\ \A i \in DOMAIN messages :
                     /\ messages[i].id = SideId(streams[t], 1 - k) =>
                            messages'[i] = messages[i]
                     /\ messages[i].id = SideId(streams[t], k) =>
                            ~messages'[i].isStreaming
               /\ streams'[t].phase = "reading"
          ELSE \A i \in DOMAIN messages :
                  messages[i].id \in {streams[t].id1, streams[t].id2} =>
                      ~messages'[i].isStreaming]_vars

\* C15 (as claimed): while isStreaming is true no step changes parallelMode
\* or secondModel.
C15_ModeFrozenWhileStreaming ==
    [][isStreaming => (parallelMode' = parallelMode /\ secondModel' = secondModel)]_vars

\* The step in which the decoder of stream t meets its first record whose
\* payload does not parse
DropStep(t) == ~streams[t].logged /\ streams'[t].logged

\* C16: the step that handles a record whose payload does not parse invokes
\* no callback and enters no error state: the messages and isStreaming are
\* unchanged, nothing is counted as delivered, and the stream is still
\* reading, so the records after it are handled like any other.
C16_MalformedDropped ==
    [][\A t \in Turns : DropStep(t) =>
          /\ messages' = messages
          /\ isStreaming' = isStreaming
          /\ pending' = pending
          /\ streams'[t] = [streams[t] EXCEPT !.logged = TRUE,
                                              !.inLoop = streams'[t].inLoop]
          /\ streams'[t].phase = "reading"]_vars

\* a stream dropped a malformed record and still delivered its content and
\* its complete record
C16_Witness ==
    \E t \in Turns :
        LET s == streams[t] IN
        /\ s.mode = "single" /\ s.logged
        /\ Len(s.chunks) > 0 /\ s.completes = 1 /\ s.errors = 0
        /\ \E i \in Positions(PlaceholderId(s)) :
              /\ messages[i].content = Concat(s.chunks)
              /\ ~messages[i].error /\ ~messages[i].isStreaming

\* The callbacks stream t has invoked so far
Callbacks(s) == <<Len(s.chunks), s.completes, s.errors>>
Terminals(s) == s.completes + s.errors

\* C17: a stream invokes at most one terminal callback, and once it has, the
\* counts of its onChunk, onComplete and onError calls never change again
\* and no later step of the stream touches the messages or isStreaming.
C17_OneTerminalCallback ==
    /\ [](\A t \in Turns : Terminals(streams[t]) <= 1)
    /\ [][\A t \in Turns : Terminals(streams[t]) = 1 =>
             /\ Callbacks(streams'[t]) = Callbacks(streams[t])
             /\ streams'[t] = streams[t]]_vars

\* a terminal callback ran after content, and the session went on: another
\* turn was started afterwards
C17_Witness ==
    \E t \in Turns :
        /\ Terminals(streams[t]) = 1 /\ Len(streams[t].chunks) > 0
        /\ streams[t].phase = "ended"
        /\ NTurns > t

\* Stream t is in flight and the sequence it was started in has been
\* replaced: another conversation (or none) is displayed, or its placeholders
\* are no longer in the sequence.
InFlight(s) == s.phase \in {"fetching", "reading"}
Stale(t) ==
    /\ InFlight(streams[t])
    /\ \/ currentConversation.id # streams[t].conv
       \/ Positions(streams[t].id1) \cup Positions(streams[t].id2) = {}

\* a step of stream t's decoder or callbacks
StreamStep(t) == streams'[t] # streams[t]

\* C18: a content, complete or error event of a stale stream changes no
\* message of the sequence now displayed.
C18_StaleEventsDiscarded ==
    [][\A t \in Turns : (Stale(t) /\ StreamStep(t)) => messages' = messages]_vars

\* a content record was delivered to a stream whose conversation had been
\* replaced by a stored one, and the stored history is displayed untouched
C18_Witness ==
    \E t \in Turns :
        /\ streams[t].phase \in {"reading", "ended"}
        /\ Len(streams[t].chunks) > 0
        /\ currentConversation.id # streams[t].conv
        /\ messages = StoredHistory

\* C19 (as claimed): under a transport that ends every request, a turn in
\* flight is eventually followed by a state in which isStreaming is false.
C19_UsableAfterTurn ==
    \A t \in Turns : InFlight(streams[t]) ~> ~isStreaming

\* The step in which the request of stream t fails in the transport: fetch
\* rejects, the status is not a success, or reader.read() rejects
TransportMessages == {FetchErrorMessage, HttpErrorMessage, ReadErrorMessage}
TransportFailStep(t) ==
    /\ InFlight(streams[t])
    /\ ~streams'[t].terminal.prefix
    /\ streams'[t].terminal.error \in TransportMessages

\* C20: a transport failure of a stream that has had no terminal callback is
\* handed to onError in that step, once: the stream ends with one error
\* callback, every placeholder of the turn that is displayed shows the
\* failure with error = true and isStreaming = false, nothing else in the
\* sequence changes, and the global isStreaming is cleared.
C20_TransportFailureRecovered ==
    [][\A t \in Turns : TransportFailStep(t) =>
          /\ streams[t].errors = 0 /\ streams'[t].errors = 1
          /\ streams'[t].completes = 0
          /\ streams'[t].phase = "ended"
          /\ isStreaming' = FALSE
          /\ Len(messages') = Len(messages)
          /\ \A i \in DOMAIN messages :
                IF messages[i].id \in {streams[t].id1, streams[t].id2}
                THEN /\ messages'[i].error /\ ~messages'[i].isStreaming
                     /\ messages'[i].content = "Error: " \o streams'[t].terminal.error
                ELSE messages'[i] = messages[i]]_vars

\* a read error ended a stream that had delivered content: the placeholder
\* shows the failure and the flag is cleared
C20_Witness ==
    \E t \in Turns :
        LET s == streams[t] IN
        /\ s.phase = "ended" /\ s.errors = 1 /\ Len(s.chunks) > 0
        /\ s.terminal.error = ReadErrorMessage
        /\ \E i \in Positions(s.id1) :
              /\ messages[i].error /\ ~messages[i].isStreaming
              /\ messages[i].content = "Error: network error"
        /\ ~isStreaming

\* C21 (as claimed): the step that handles a backend error record leaves the
\* failed placeholder's content equal to the record's error text.
C21_ErrorTextVerbatim ==
    [][\A t \in Turns : (ErrorStep(t) /\ streams'[t].terminal.prefix) =>
          \A i \in DOMAIN messages' :
              messages'[i].id \in {streams[t].id1, streams[t].id2} =>
                  messages'[i].content = streams'[t].terminal.error]_vars

\* The step in which a loadConversations request settles
RefreshStep(r) ==
    /\ r \in pending /\ r.op = "loadConversations"
    /\ r \notin pending'

\* C22: the step in which the metadata refresh settles, with a response or
\* with a failure, changes neither the message sequence nor isStreaming nor
\* any stream.
C22_RefreshLeavesTurnAlone ==
    [][\A r \in pending : RefreshStep(r) =>
          /\ messages' = messages
          /\ isStreaming' = isStreaming
          /\ streams' = streams]_vars

\* the refresh started by a complete failed (the list was never loaded) and
\* the placeholder is still finalized under its server id
C22_Witness ==
    /\ \A r \in pending : r.op # "loadConversations"
    /\ conversations # server
    /\ ~isStreaming
    /\ \E t \in Turns :
          /\ streams[t].mode = "single" /\ streams[t].completes = 1
          /\ \E i \in Positions(ServerId(t)) :
                ~messages[i].isStreaming /\ ~messages[i].error

\* new = old + c for some content chunk c, or new = old
Appended(old, new) == new = old \/ \E c \in ChunkTexts : new = old \o c

\* C23: for a message that is in the sequence before and after a step (the
\* same id), the role is unchanged; the content is unchanged when the message
\* was not streaming; and when it is streaming before and after, the new
\* content is the old one with a chunk appended.
C23_ContentAppendOnly ==
    [][\A i \in DOMAIN messages : \A j \in DOMAIN messages' :
          messages'[j].id = messages[i].id =>
              /\ messages'[j].role = messages[i].role
              /\ ~messages[i].isStreaming => messages'[j].content = messages[i].content
              /\ (messages[i].isStreaming /\ messages'[j].isStreaming) =>
                    Appended(messages[i].content, messages'[j].content)]_vars

\* a finished message with content is displayed while a later turn streams
\* its own content
C23_Witness ==
    \E i \in DOMAIN messages : \E j \in DOMAIN messages :
        /\ i < j
        /\ messages[i].role = "assistant" /\ ~messages[i].isStreaming
        /\ messages[i].id[1] \in {"srv", "temp-assistant"}
        /\ messages[i].content \in ChunkTexts
        /\ messages[j].isStreaming /\ messages[j].content \in ChunkTexts

\* The id of the user message of the turn of stream s: sendMessage reads
\* Date.now() for it in the same handler as for the placeholders
UserIdOf(s) == TempId("temp", s.id1[2])

\* Wherever a placeholder of a turn stands, the turn's user message stands
\* right before the placeholder (single mode) or before the pair (dual mode)
TurnContiguous(t) ==
    LET s == streams[t] IN
    IF s.mode = "single"
    THEN \A i \in Positions(PlaceholderId(s)) :
            i > 1 /\ messages[i - 1].id = UserIdOf(s) /\ messages[i - 1].role = "user"
    ELSE /\ \A i \in Positions(s.id1) :
               /\ i > 1 /\ messages[i - 1].id = UserIdOf(s)
               /\ i < Len(messages) /\ messages[i + 1].id = s.id2
         /\ \A i \in Positions(s.id2) : i > 1 /\ messages[i - 1].id = s.id1

\* The step in which sendMessage is accepted as turn t
AcceptStep(t) == streams[t].phase = "idle" /\ streams'[t].phase = "fetching"

\* C24: an accepted sendMessage appends the user message and right after it
\* its one or two placeholders with empty content and isStreaming = true,
\* leaving what was there before; and in every state the placeholders of a
\* turn directly follow the turn's user message.
C24_TurnAppendedContiguous ==
    /\ [](\A t \in Turns : streams[t].phase # "idle" => TurnContiguous(t))
    /\ [][\A t \in Turns : AcceptStep(t) =>
             LET s == streams'[t]
                 n == Len(messages)
                 k == IF s.mode = "single" THEN 1 ELSE 2
             IN  /\ Len(messages') = n + 1 + k
                 /\ SubSeq(messages', 1, n) = messages
                 /\ messages'[n + 1].role = "user" /\ messages'[n + 1].id = UserIdOf(s)
                 /\ messages'[n + 2].id = s.id1
                 /\ k = 2 => messages'[n + 3].id = s.id2
                 /\ \A j \in (n + 2)..(n + 1 + k) :
                       /\ messages'[j].role = "assistant"
                       /\ messages'[j].content = ""
                       /\ messages'[j].isStreaming]_vars

\* a second turn, a dual one, was appended after a finished single turn
C24_Witness ==
    /\ Len(messages) = 5
    /\ streams[1].mode = "single" /\ streams[2].mode = "parallel"
    /\ messages[2].id = PlaceholderId(streams[1])
    /\ messages[3].id = UserIdOf(streams[2])
    /\ messages[4].id = streams[2].id1 /\ messages[5].id = streams[2].id2

\* C25: a record with an error field ends the stream as a failure, whether or
\* not it also carries done: true: in the step that handles it onError runs
\* (once) and the stream ends, and onComplete never runs for a stream whose
\* last record carried an error.
ErrorRecordStep(t) ==
    /\ streams'[t] # streams[t]
    /\ streams'[t].terminal.prefix /\ streams'[t].terminal.error # ""
C25_ErrorWinsOverDone ==
    /\ [](\A t \in Turns : streams[t].terminal.error # "" =>
             streams[t].completes = 0 /\ streams[t].errors = 1)
    /\ [][\A t \in Turns : ErrorRecordStep(t) =>
             /\ streams[t].errors = 0 /\ streams'[t].errors = 1
             /\ streams'[t].completes = 0
             /\ streams'[t].phase = "ended"
             /\ \A i \in DOMAIN messages' :
                   messages'[i].id \in {streams[t].id1, streams[t].id2} =>
                       messages'[i].error]_vars

\* the record {error: "timeout", done: true} ended a stream as a failure
C25_Witness ==
    \E t \in Turns :
        LET s == streams[t] IN
        /\ s.terminal.prefix /\ s.terminal.done /\ s.terminal.error = "timeout"
        /\ s.errors = 1 /\ s.completes = 0 /\ s.phase = "ended"
        /\ \E i \in Positions(s.id1) : messages[i].error

\* C27 (as claimed): the ids of the messages in the sequence are pairwise
\* distinct.
C27_IdsDistinct ==
    \A i \in DOMAIN messages : \A j \in DOMAIN messages :
        i # j => messages[i].id # messages[j].id

\* The body of stream s has been handled to its end
Decoded(s) == s.sent # <<>> /\ s.phase = "ended"

\* What the decoder does with the records of s when each arrives whole in a
\* fragment of its own
RECURSIVE Whole(_)
Whole(sent) == IF sent = <<>> THEN <<>> ELSE <<Text(Head(sent))>> \o Whole(Tail(sent))
RECURSIVE RunFragments(_, _, _, _, _)
RunFragments(t, fragments, msgs, flag, s) ==
    IF fragments = <<>> THEN [messages |-> msgs, isStreaming |-> flag, stream |-> s]
    ELSE LET out == RunLines(t, SplitLines(Head(fragments)), msgs, flag, s)
         IN  RunFragments(t, Tail(fragments), out.messages, out.isStreaming, out.stream)
ExpectedCallbacks(t) ==
    LET s == streams[t]
        fresh == [NewStream(s.mode, s.conv, s.id1, s.id2) EXCEPT !.phase = "reading"]
        out == RunFragments(t, Whole(s.sent), <<>>, TRUE, fresh).stream
    IN  <<out.chunks, out.completes, out.errors>>

\* C26 (as claimed): when a body has been handled to its end, the onChunk,
\* onComplete and onError calls made for it are those made when each of its
\* records arrives whole, however the transport cut its bytes.
C26_FragmentationInvariant ==
    \A t \in Turns :
        Decoded(streams[t]) =>
            <<streams[t].chunks, streams[t].completes, streams[t].errors>>
                = ExpectedCallbacks(t)

\* C28 (as claimed): at most one stream is in flight, and a terminal event of
\* one turn never clears isStreaming while a placeholder of another turn is
\* still streaming.
StreamsInFlight == {t \in Turns : InFlight(streams[t])}
C28_OneStreamInFlight ==
    /\ Cardinality(StreamsInFlight) <= 1
    /\ ~Busy /\ ~isStreaming => \A i \in DOMAIN messages : ~messages[i].isStreaming


\* The step in which the conversation that handleSubmit asked for with
\* request r is created
SubmitCreatedStep(r) ==
    /\ r \in pending /\ r.op = "createConversation" /\ r.msg # NoMessage
    /\ r \notin pending'
    /\ currentConversation' # NULL
    /\ currentConversation'.id \notin server

\* C29: a message submitted while no conversation is current is sent as the
\* first turn of the conversation created for it: when the creation succeeds
\* the user message with the submitted text is in the message list
C29_SubmitWithoutConversationSends ==
    [][\A r \in pending :
          SubmitCreatedStep(r) =>
             \E i \in DOMAIN messages' :
                /\ messages'[i].role = "user"
                /\ messages'[i].content = r.msg.content]_vars


\* The step in which the response to selectConversation request r arrives
SelectSettledStep(r) ==
    /\ r \in pending /\ r.op = "getConversation"
    /\ r \notin pending'

SelectsPending(reqs) == {q \in reqs : q.op = "getConversation"}

\* C30: of overlapping selectConversation calls the last request wins: once
\* every selection has been answered and the latest one succeeded, the
\* conversation shown is the one the latest call asked for
C30_LastSelectionWins ==
    [][\A r \in pending :
          (/\ SelectSettledStep(r)
           /\ SelectsPending(pending') = {}
           /\ lastSelect'.ok)
          => currentConversation'.id = lastSelect'.arg]_vars

\* The other half of C30: the conversation and its messages come from one response
C30_SetTogether ==
    [][\A r \in pending :
          SelectSettledStep(r) /\ currentConversation' # currentConversation
          => /\ currentConversation'.id = r.arg
             /\ messages' \in ServerHistories]_vars

====
